---- MODULE Spec2Model ----
(***************************************************************************)
(* A model of the YTB Telegram bot: main.py (start, handle_text,           *)
(* callback_download, service_cleanup) and modules/youtube.py (the         *)
(* download worker on a two-thread pool, download_and_send, safe_delete,   *)
(* format_seconds, escape_md, sanitize_filename, detect_platform).         *)
(*                                                                         *)
(* A request is one incoming message and the button press that may follow *)
(* it.  The event loop runs one coroutine segment at a time; a segment     *)
(* ends at every await: of a platform call and of the worker pool.  The    *)
(* worker body runs on a pool thread and interleaves with everything else. *)
(*                                                                         *)
(* Texts are ASCII: the cross mark of the source's error texts is written  *)
(* "[x]", the hourglass and check mark are left out.                       *)
(***************************************************************************)
EXTENDS Integers, Sequences, FiniteSets, TLC

VARIABLES
    pc,        \* per request: position of its handler coroutine
    msg,       \* per request: text of the original message (as sent)
    mode,      \* per request: mode carried by the pressed button
    original,  \* per request: the message callback_download recovered
    url,       \* per request: url handed to download_and_send
    log,       \* per request: platform and filesystem calls made, in order
    escaped,   \* per request: handlers an exception propagated out of
    job,       \* per request: state of its job in DOWNLOAD_WORKERS
    result,    \* per request: what _pytube_download returned or raised
    wrote,     \* per request: path stream.download wrote ("" none yet)
    queue,     \* jobs waiting in the pool, oldest first
    running,   \* jobs executing on a pool thread
    fs,        \* downloads directory: path -> file, NoFile when absent
    loop,      \* coroutine occupying the event-loop thread, 0 when free
    faults,    \* platform / filesystem call failures injected so far
    callFn,    \* pure-function harness: function applied
    callArg,   \* pure-function harness: its argument
    callRet    \* pure-function harness: its result

vars == <<pc, msg, mode, original, url, log, escaped, job, result, wrote, queue,
          running, fs, loop, faults, callFn, callArg, callRet>>

reqVars == <<pc, msg, mode, original, url, log, escaped, job, result, wrote, queue,
             running, fs, loop, faults>>

callVars == <<callFn, callArg, callRet>>

----------------------------------------------------------------------------
(* Bounds *)

NReq == 2
NPool == 3
MaxFaults == 2
MaxSeconds == 7300
MaxText == 4

\* The requests of Spec and those of PoolSpec; the state has room for both.
Arriving == 1..NReq

Submitting == 1..NPool

Req == Arriving \cup Submitting

----------------------------------------------------------------------------
(* Program constants *)

DOWNLOAD_WORKERS == 2

MAX_TELEGRAM_SIZE == 2000 * 1024 * 1024

MiB == 1024 * 1024

GiB2 == [mib |-> 2048, rem |-> 0]

DOWNLOADS_DIR == <<"d", "l">>

None == "None"

Modes == {"audio", "video"}

----------------------------------------------------------------------------
(* Values *)

\* A file size in bytes is mib * 2^20 + rem with 0 <= rem < 2^20, so that
\* sizes around 2^31 stay within TLC's 32-bit integers.
Size(mib, rem) == [mib |-> mib, rem |-> rem]

Bytes(n) == Size(n \div MiB, n % MiB)

SizeGT(a, b) == a.mib > b.mib \/ (a.mib = b.mib /\ a.rem > b.rem)

NoFile == [owner |-> 0, size |-> Size(0, 0)]

\* One call made to the platform or the filesystem: the function making it,
\* the call, its text, and whether it succeeded.
Ev(by, op, text, ok) == [by |-> by, op |-> op, text |-> text, ok |-> ok]

\* Text of the exception a failing platform call raises.
RpcError(op) == "Telegram says: [400 BAD_REQUEST] " \o op

\* Message of the exception the video-info provider raises.
ProviderError == "regex_search: could not find match"

NoSuchFile == "[Errno 2] No such file or directory"

ChooseText == "Choose download type:"

NoLinkText == "No supported YouTube link detected. Send a YouTube URL."

AlertText == "Original link not found."

ProcessingText == "Processing... Please wait."

NotFoundText == "[x] Download failed or file not found."

ConfirmText == "Uploaded in Ns."

PreparingText(m) == "Preparing " \o m \o " download..."

TooLargeText == "[x] File too large for Telegram (max 2GB)"

Fails(evs) == Cardinality({i \in DOMAIN evs : ~evs[i].ok})

----------------------------------------------------------------------------
(* Link detection: a text is a sequence of characters. *)

Lower == {"a", "b", "c", "d", "e", "f", "g", "h", "i", "j", "k", "l", "m",
          "n", "o", "p", "q", "r", "s", "t", "u", "v", "w", "x", "y", "z"}

Upper == {"A", "B", "C", "D", "E", "F", "G", "H", "I", "J", "K", "L", "M",
          "N", "O", "P", "Q", "R", "S", "T", "U", "V", "W", "X", "Y", "Z"}

Digits == {"0", "1", "2", "3", "4", "5", "6", "7", "8", "9"}

\* Characters outside ASCII that Python's \w matches on str patterns: letters
\* and decimal digits of every script, of which these stand here; each is
\* written as its code point.
UnicodeWord == {"U+00E9", "U+65E5", "U+017F", "U+212A", "U+0663"}

WordChar(c) == c \in Lower \cup Upper \cup Digits \cup {"_"} \cup UnicodeWord

LowerSeq == <<"a", "b", "c", "d", "e", "f", "g", "h", "i", "j", "k", "l", "m", "n", "o", "p", "q", "r", "s", "t", "u", "v", "w", "x", "y", "z">>

UpperSeq == <<"A", "B", "C", "D", "E", "F", "G", "H", "I", "J", "K", "L", "M", "N", "O", "P", "Q", "R", "S", "T", "U", "V", "W", "X", "Y", "Z">>

\* re.IGNORECASE on a str pattern: a letter matches in either case, the
\* long s (U+017F) matches the letter s and the Kelvin sign (U+212A) the
\* letter k.
CaseFold ==
    [c \in Upper \cup {"U+017F", "U+212A"} |->
        IF c = "U+017F" THEN "s"
        ELSE IF c = "U+212A" THEN "k"
        ELSE LowerSeq[CHOOSE i \in DOMAIN UpperSeq : UpperSeq[i] = c]]

LowerOf(c) == IF c \in DOMAIN CaseFold THEN CaseFold[c] ELSE c

\* [\w\-]
IdChar(c) == WordChar(c) \/ c = "-"

\* {11}
IdLength == 11

\* The positions after a literal part of the pattern, from the positions S.
Then(text, S, lit) ==
    {i + Len(lit) : i \in {j \in S : /\ j + Len(lit) - 1 <= Len(text)
                                     /\ \A k \in DOMAIN lit :
                                          LowerOf(text[j + k - 1]) = lit[k]}}

\* ( ... )? : the part is taken or skipped
Opt(text, S, lit) == S \cup Then(text, S, lit)

\* [\w\-]{11}
Id(text, S) ==
    {i + IdLength : i \in {j \in S : /\ j + IdLength - 1 <= Len(text)
                                     /\ \A k \in 0..(IdLength - 1) : IdChar(text[j + k])}}

\* The positions where a match of YOUTUBE_REGEX that starts at i can end.
YOUTUBE_REGEX(text, i) ==
    LET scheme == {i} \cup Then(text,
                                Opt(text, Then(text, {i}, <<"h", "t", "t", "p">>), <<"s">>),
                                <<":", "/", "/">>)
        www == Opt(text, scheme, <<"w", "w", "w", ".">>)
        m == Opt(text, www, <<"m", ".">>)
        domain == Then(text, m, <<"y", "o", "u", "t", "u", "b", "e", ".", "c", "o", "m">>)
                    \cup Then(text, m, <<"y", "o", "u", "t", "u", ".", "b", "e">>)
        slash == Then(text, domain, <<"/">>)
    IN  Id(text, Then(text, slash, <<"w", "a", "t", "c", "h", "?", "v", "=">>))
          \cup Id(text, Then(text, slash, <<"s", "h", "o", "r", "t", "s", "/">>))
          \cup Id(text, Then(text, slash, <<"e", "m", "b", "e", "d", "/">>))
          \cup Id(text, Then(text, slash, <<"v", "/">>))
          \cup Id(text, slash)

LINK == <<"h", "t", "t", "p", "s", ":", "/", "/", "y", "o", "u", "t", "u", ".", "b", "e", "/", "d", "Q", "w", "4", "w", "9", "W", "g", "X", "c", "Q">>

\* Texts a user sends that are not commands.
Texts == {<<"h", "e", "l", "l", "o">>,
          <<"\t", "s", "e", "e", " ">> \o LINK \o <<" ", "\n">>}

\* The characters str.isspace() holds for, which str.strip() and int()
\* remove: those without an escape are written as their code points.
Whitespace ==
    {" ", "\t", "\n", "\r", "\f", "U+000B", "U+001C", "U+001D", "U+001E", "U+001F",
     "U+0085", "U+00A0", "U+1680", "U+2000", "U+2001", "U+2002", "U+2003", "U+2004",
     "U+2005", "U+2006", "U+2007", "U+2008", "U+2009", "U+200A", "U+2028", "U+2029",
     "U+202F", "U+205F", "U+3000"}

RECURSIVE lstrip(_)
lstrip(t) == IF t # <<>> /\ Head(t) \in Whitespace THEN lstrip(Tail(t)) ELSE t

RECURSIVE rstrip(_)
rstrip(t) ==
    IF t # <<>> /\ t[Len(t)] \in Whitespace THEN rstrip(SubSeq(t, 1, Len(t) - 1)) ELSE t

\* str.strip()
strip(t) == rstrip(lstrip(t))

\* YOUTUBE_REGEX.match(text): the pattern tried at the start of the text only
YOUTUBE_REGEX_match(text) == text # <<>> /\ YOUTUBE_REGEX(text, 1) # {}

\* YOUTUBE_REGEX.search(text): the pattern tried at every position
YOUTUBE_REGEX_search(text) == \E i \in DOMAIN text : YOUTUBE_REGEX(text, i) # {}

detect_platform(text) ==
    IF text = <<>> THEN None
    ELSE IF YOUTUBE_REGEX_search(text) THEN "youtube"
    ELSE None

----------------------------------------------------------------------------
(* Paths and sanitize_filename: a path is a sequence of characters. *)

\* re.sub(r'[^\w\-_\. ]', '_', filename)
SafeChar(c) == IF WordChar(c) \/ c \in {"-", "_", ".", " "} THEN c ELSE "_"

RECURSIVE LastSlash(_, _)
LastSlash(p, i) == IF i = 0 \/ p[i] = "/" THEN i ELSE LastSlash(p, i - 1)

\* head.rstrip('/')
RECURSIVE rstrip_sep(_)
rstrip_sep(h) ==
    IF h # <<>> /\ h[Len(h)] = "/" THEN rstrip_sep(SubSeq(h, 1, Len(h) - 1)) ELSE h

\* os.path.split(path): the head loses its trailing slashes unless it is
\* made of slashes only.
split(path) ==
    LET i == LastSlash(path, Len(path))
        head == SubSeq(path, 1, i)
    IN  [head |-> IF \E j \in DOMAIN head : head[j] # "/" THEN rstrip_sep(head) ELSE head,
         tail |-> SubSeq(path, i + 1, Len(path))]

\* os.path.join(a, b)
join(a, b) ==
    IF b # <<>> /\ Head(b) = "/" THEN b
    ELSE IF a = <<>> \/ a[Len(a)] = "/" THEN a \o b
    ELSE a \o <<"/">> \o b

sanitize_filename(path) ==
    LET dirname == split(path).head
        filename == split(path).tail
        safe_filename == [i \in DOMAIN filename |-> SafeChar(filename[i])]
    IN  join(dirname, safe_filename)

JoinPath(dir, name) == dir \o <<"/">> \o name

\* What the provider can deliver for a url: the default file name pytube
\* derives from the title, and the size of the stream.
Videos == {[name |-> <<"a", ".", "m">>, size |-> Size(1, 0)],
           [name |-> <<"a", ".", "m">>, size |-> GiB2],
           [name |-> <<"a", "(", ".", "m">>, size |-> Size(1, 0)]}

Paths == {JoinPath(DOWNLOADS_DIR, v.name) : v \in Videos}
         \cup {sanitize_filename(JoinPath(DOWNLOADS_DIR, v.name)) : v \in Videos}

exists(path) == path \in DOMAIN fs /\ fs[path] # NoFile

\* if os.path.getsize(filepath) > MAX_TELEGRAM_SIZE
TooLarge(size) == SizeGT(size, Bytes(MAX_TELEGRAM_SIZE))

----------------------------------------------------------------------------
(* Initial state: the bot is up, the downloads directory is empty, every
   request is a text message not yet handled. *)

NoMessage == [present |-> FALSE, text |-> <<>>]

NoResult == [ok |-> FALSE, filepath |-> <<>>, err |-> ""]

ReqInit ==
    /\ pc = [r \in Req |-> "new"]
    /\ msg = [r \in Req |-> <<>>]
    /\ mode = [r \in Req |-> None]
    /\ original = [r \in Req |-> NoMessage]
    /\ url = [r \in Req |-> <<>>]
    /\ log = [r \in Req |-> <<>>]
    /\ escaped = [r \in Req |-> {}]
    /\ job = [r \in Req |-> "none"]
    /\ result = [r \in Req |-> NoResult]
    /\ wrote = [r \in Req |-> <<>>]
    /\ queue = <<>>
    /\ running = {}
    /\ fs = [p \in Paths |-> NoFile]
    /\ loop = 0
    /\ faults = 0

CallIdle ==
    /\ callFn = "none"
    /\ callArg = None
    /\ callRet = None

Init == ReqInit /\ CallIdle

----------------------------------------------------------------------------
(* Building blocks of the handlers.

   A coroutine is suspended at every await of a platform call and at the
   await of the worker pool.  One step of a request is the completion of
   the call it awaits, followed by the code that runs up to the next await;
   pc names the call the coroutine is suspended in:
     new              the message has not arrived
     choice           the buttons are shown, no handler runs
     cb_lookup        callback_download: get_messages
     cb_alert         callback_download: answer("Original link not found.")
     cb_answer        callback_download: answer("Preparing ... download...")
     cb_status        callback_download: send_message("Processing...")
     await_worker     download_and_send: the job in DOWNLOAD_WORKERS
     ds_missing_send  download_and_send: send_message of line 108
     ds_missing_delete download_and_send: safe_delete of line 109
     uploading        download_and_send: send_audio / send_video
     uploaded         download_and_send: safe_delete of line 140
     confirming       download_and_send: send_message of line 148
     ds_except_delete download_and_send: safe_delete of line 151
     ds_except_send   download_and_send: send_message of line 152
     cb_except        callback_download: reply of line 108
     done             the handling has ended *)

\* The Message that send_message of main.py line 92 returned.
ProcessingMessage == "Message"

\* safe_delete(message): no call for a falsy message; otherwise the delete is
\* attempted and its failure is swallowed.
safe_delete(message, ok) ==
    IF message = None THEN <<>>
    ELSE <<Ev("download_and_send", "delete", ProcessingText, ok)>>

\* The handler of line 150 without its safe_delete: it starts with the send.
download_except_no_delete == "ds_except_send"

\* download_and_send's handler, except Exception as e: it starts with the
\* safe_delete of line 151.
download_except == "ds_except_delete"

\* The text prefixed as in callback_download's handler.
str_e_prefixed(e) == "Error: " \o e

\* str(e) of line 152
str_e(e) == e

\* The failed calls of r whose exception reached a handler: a failed delete
\* and a failed os.remove are swallowed where they are made.
Raised_calls(r) == SelectSeq(log[r], LAMBDA e : ~e.ok /\ e.op \notin {"delete", "remove"})

\* The exception e a handler of r is handling: the one of the last call that
\* raised, or the worker's when no call has raised.
HandledError(r) ==
    LET rs == Raised_calls(r)
    IN  IF rs = <<>> THEN result[r].err ELSE RpcError(rs[Len(rs)].op)

\* Outcomes of a call that is made only when `made` holds.
Outcome(made) == IF made THEN BOOLEAN ELSE {TRUE}

\* The step of coroutine r: evs are the calls that completed, next is where
\* it is suspended afterwards.  Failed calls are drawn from the fault budget,
\* except the `given` ones, which fail by the state they are made in.
Advance(r, evs, given, next) ==
    /\ faults + Fails(evs) - given <= MaxFaults
    /\ faults' = faults + Fails(evs) - given
    /\ log' = [log EXCEPT ![r] = @ \o evs]
    /\ pc' = [pc EXCEPT ![r] = next]

----------------------------------------------------------------------------
(* main.py: start, handle_text, service_cleanup *)

\* Texts that filters.command(["start", "help"]) takes.
Commands == {<<"/", "s", "t", "a", "r", "t">>, <<"/", "h", "e", "l", "p">>}

UsageText ==
    "Send a YouTube link and choose Audio or Video.\n"
        \o "I will download and upload the file with metadata.\nDeveloper: @deweni2"

\* Lines 39-44: the reply is outside any try.
start(r) ==
    /\ pc[r] = "new"
    /\ loop = 0
    /\ \E t \in Commands, ok \in BOOLEAN :
         /\ Advance(r, <<Ev("start", "reply", UsageText, ok)>>, 0, "done")
         /\ msg' = [msg EXCEPT ![r] = t]
         /\ escaped' = [escaped EXCEPT ![r] = IF ok THEN @ ELSE @ \cup {"start"}]
    /\ loop' = 0
    /\ UNCHANGED <<mode, original, url, job, result, wrote, queue, running, fs>>
    /\ UNCHANGED callVars

handle_text(r) ==
    /\ pc[r] = "new"
    /\ loop = 0
    /\ \E t \in Texts, ok \in BOOLEAN :
         LET text == strip(t)
             platform == detect_platform(text)
             evs == IF platform = "youtube"
                    THEN <<Ev("handle_text", "reply", ChooseText, ok)>>
                    ELSE <<Ev("handle_text", "reply", NoLinkText, ok)>>
         IN  /\ Advance(r, evs, 0, IF ok /\ platform = "youtube" THEN "choice" ELSE "done")
             /\ msg' = [msg EXCEPT ![r] = t]
             /\ escaped' = [escaped EXCEPT ![r] = IF ok THEN @ ELSE @ \cup {"handle_text"}]
    /\ loop' = 0
    /\ UNCHANGED <<mode, original, url, job, result, wrote, queue, running, fs>>
    /\ UNCHANGED callVars

\* Lines 113-119: a service message is deleted, a failure is swallowed.
service_cleanup(r) ==
    /\ pc[r] = "new"
    /\ loop = 0
    /\ \E ok \in BOOLEAN :
         Advance(r, <<Ev("service_cleanup", "delete", "service message", ok)>>, 0, "done")
    /\ loop' = 0
    /\ UNCHANGED <<msg, mode, original, url, escaped, job, result, wrote, queue, running, fs>>
    /\ UNCHANGED callVars

----------------------------------------------------------------------------
(* modules/youtube.py: the worker pool *)

\* The download called inline: the coroutine keeps the event-loop thread
\* while its job is pending.
run_blocking_inline(r) ==
    /\ queue' = Append(queue, r)
    /\ job' = [job EXCEPT ![r] = "queued"]
    /\ loop' = r

\* loop.run_in_executor(DOWNLOAD_WORKERS, ...) followed by await: the job is
\* queued and the coroutine is suspended, which frees the event loop.
run_blocking(r) ==
    /\ queue' = Append(queue, r)
    /\ job' = [job EXCEPT ![r] = "queued"]
    /\ loop' = 0

download_youtube(r) == run_blocking(r)

----------------------------------------------------------------------------
(* main.py: callback_download *)

\* What get_messages / reply_to_message can deliver for the pressed button.
Lookups == {"message", "no_message", "no_text",
            "raise_reply_message", "raise_reply_none", "raise_reply_no_text"}

\* original after lines 78-82: get_messages' answer or, when it raised,
\* callback_query.message.reply_to_message.  text <<>> stands for no text.
Original(r, lk) ==
    [present |-> lk \notin {"no_message", "raise_reply_none"},
     text |-> IF lk \in {"message", "raise_reply_message"} THEN msg[r] ELSE <<>>]

\* The test without its check of the text.
NotFound_present_only(o) == ~o.present

\* if not original or not getattr(original, 'text', None)
NotFound(o) == ~o.present \/ o.text = <<>>

\* Lines 70-80: a button is pressed; the mode is read from the callback data
\* (the filter lets audio and video through) and get_messages is called.
callback_download(r) ==
    /\ pc[r] = "choice"
    /\ loop = 0
    /\ \E m \in Modes :
         /\ Advance(r, <<>>, 0, "cb_lookup")
         /\ mode' = [mode EXCEPT ![r] = m]
    /\ loop' = 0
    /\ UNCHANGED <<msg, original, url, escaped, job, result, wrote, queue, running, fs>>
    /\ UNCHANGED callVars

\* Lines 80-89: get_messages has returned or raised; the answer to the
\* callback query is called next.
callback_lookup(r) ==
    /\ pc[r] = "cb_lookup"
    /\ loop = 0
    /\ \E lk \in Lookups :
         LET orig == Original(r, lk)
         IN  /\ Advance(r, <<>>, 0, IF NotFound(orig) THEN "cb_alert" ELSE "cb_answer")
             /\ original' = [original EXCEPT ![r] = orig]
             /\ url' = [url EXCEPT ![r] = IF NotFound(orig) THEN @ ELSE strip(orig.text)]
    /\ loop' = 0
    /\ UNCHANGED <<msg, mode, escaped, job, result, wrote, queue, running, fs>>
    /\ UNCHANGED callVars

\* Lines 85-86: the alert has been answered, or the answer raised.
callback_alert(r) ==
    /\ pc[r] = "cb_alert"
    /\ loop = 0
    /\ \E a \in BOOLEAN :
         Advance(r, <<Ev("callback_download", "answer", AlertText, a)>>, 0,
                 IF a THEN "done" ELSE "cb_except")
    /\ loop' = 0
    /\ UNCHANGED <<msg, mode, original, url, escaped, job, result, wrote, queue, running, fs>>
    /\ UNCHANGED callVars

\* Lines 89-92: the answer has returned; send_message is called next.
callback_answer(r) ==
    /\ pc[r] = "cb_answer"
    /\ loop = 0
    /\ \E a \in BOOLEAN :
         Advance(r, <<Ev("callback_download", "answer", PreparingText(mode[r]), a)>>, 0,
                 IF a THEN "cb_status" ELSE "cb_except")
    /\ loop' = 0
    /\ UNCHANGED <<msg, mode, original, url, escaped, job, result, wrote, queue, running, fs>>
    /\ UNCHANGED callVars

\* Lines 92-104 and youtube.py 101-103: the status message has been sent;
\* download_and_send starts and awaits the worker.
callback_status(r) ==
    /\ pc[r] = "cb_status"
    /\ loop = 0
    /\ \E p \in BOOLEAN :
         /\ Advance(r, <<Ev("callback_download", "send_message", ProcessingText, p)>>, 0,
                    IF p THEN "await_worker" ELSE "cb_except")
         /\ IF p THEN download_youtube(r)
            ELSE /\ loop' = 0
                 /\ UNCHANGED <<queue, job>>
    /\ UNCHANGED <<msg, mode, original, url, escaped, result, wrote, running, fs>>
    /\ UNCHANGED callVars

\* Lines 106-110: except Exception as e: reply(f"Error: {e}"), whose own
\* failure is swallowed.
callback_except(r) ==
    /\ pc[r] = "cb_except"
    /\ loop = 0
    /\ \E c \in BOOLEAN :
         Advance(r, <<Ev("callback_download", "reply", "Error: " \o HandledError(r), c)>>,
                 0, "done")
    /\ loop' = 0
    /\ UNCHANGED <<msg, mode, original, url, escaped, job, result, wrote, queue, running, fs>>
    /\ UNCHANGED callVars

----------------------------------------------------------------------------
(* modules/youtube.py: a job on a thread of DOWNLOAD_WORKERS *)

\* A pool without a limit on its threads.
PoolAlwaysHasThread == TRUE

\* ThreadPoolExecutor(max_workers=2): the oldest queued job starts when a
\* thread is free.
PoolHasThread == Cardinality(running) < DOWNLOAD_WORKERS

StartJob(r) ==
    /\ queue # <<>>
    /\ Head(queue) = r
    /\ PoolHasThread
    /\ queue' = Tail(queue)
    /\ running' = running \cup {r}
    /\ job' = [job EXCEPT ![r] = "running"]
    /\ UNCHANGED <<pc, msg, mode, original, url, log, escaped, result, wrote, fs, loop, faults>>
    /\ UNCHANGED callVars

\* A worker that runs the job again when it failed.
Finish_retries(r, res) ==
    IF res.ok
    THEN /\ result' = [result EXCEPT ![r] = res]
         /\ running' = running \ {r}
         /\ job' = [job EXCEPT ![r] = "finished"]
    ELSE /\ job' = [job EXCEPT ![r] = "running"]
         /\ UNCHANGED <<result, running>>

\* The job ends: the thread is free again and the future holds res.
Finish(r, res) ==
    /\ result' = [result EXCEPT ![r] = res]
    /\ running' = running \ {r}
    /\ job' = [job EXCEPT ![r] = "finished"]

Raised(e) == [ok |-> FALSE, filepath |-> <<>>, err |-> e]

Returned(path) == [ok |-> TRUE, filepath |-> path, err |-> ""]

NoStreamText(m) ==
    IF m = "audio" THEN "[x] No audio streams found" ELSE "[x] No video streams found"

\* Message of the OSError os.makedirs raises.
MakedirsError == "[Errno 13] Permission denied"

\* Message of the exception pytube raises when yt.title, yt.author or
\* yt.length cannot be read.
MetadataError == "Exception while accessing title"

\* _pytube_download, lines 52-72: make the directory, resolve the url, select
\* the stream, download it into the directory, sanitize the returned path.
\* The provider either fails at one of these steps or writes a file.
\* Lines 52 and 59-66 are outside the try blocks: what os.makedirs or the
\* reading of the streams raises leaves the function as it is.
ProviderOutcomes ==
    {[kind |-> k, video |-> <<>>] :
        k \in {"makedirs_error", "unavailable", "streams_error", "no_stream", "io_error"}}
        \cup {[kind |-> "written", video |-> v] : v \in Videos}

pytube_fetch(r) ==
    /\ job[r] = "running"
    /\ \E o \in ProviderOutcomes :
         CASE o.kind = "makedirs_error" ->
                /\ Finish(r, Raised(MakedirsError))
                /\ UNCHANGED <<wrote, fs>>
           [] o.kind = "unavailable" ->
                /\ Finish(r, Raised("[x] Failed to fetch video info: " \o ProviderError))
                /\ UNCHANGED <<wrote, fs>>
           [] o.kind = "streams_error" ->
                /\ Finish(r, Raised(ProviderError))
                /\ UNCHANGED <<wrote, fs>>
           [] o.kind = "no_stream" ->
                /\ Finish(r, Raised(NoStreamText(mode[r])))
                /\ UNCHANGED <<wrote, fs>>
           [] o.kind = "io_error" ->
                /\ Finish(r, Raised("[x] Failed to download: " \o ProviderError))
                /\ UNCHANGED <<wrote, fs>>
           [] o.kind = "written" ->
                LET path == JoinPath(DOWNLOADS_DIR, o.video.name)
                IN  /\ fs' = [fs EXCEPT ![path] = [owner |-> r, size |-> o.video.size]]
                    /\ wrote' = [wrote EXCEPT ![r] = path]
                    /\ result' = [result EXCEPT ![r] = Returned(sanitize_filename(path))]
                    /\ job' = [job EXCEPT ![r] = "written"]
                    /\ UNCHANGED running
    /\ UNCHANGED <<pc, msg, mode, original, url, log, escaped, queue, loop, faults>>
    /\ UNCHANGED callVars

\* _pytube_download, lines 74-85: os.path.getsize of the sanitized path (it
\* raises when no file has that path), the ceiling, then yt.title, yt.author
\* and yt.length, read outside any try, and the returned record.
pytube_check(r) ==
    /\ job[r] = "written"
    /\ LET filepath == result[r].filepath
       IN  IF ~exists(filepath) THEN Finish(r, Raised(NoSuchFile))
           ELSE IF TooLarge(fs[filepath].size) THEN Finish(r, Raised(TooLargeText))
           ELSE \E metadata \in BOOLEAN :
                    Finish(r, IF metadata THEN Returned(filepath) ELSE Raised(MetadataError))
    /\ UNCHANGED <<pc, msg, mode, original, url, log, escaped, wrote, queue, fs, loop, faults>>
    /\ UNCHANGED callVars

----------------------------------------------------------------------------
(* modules/youtube.py: download_and_send after the await of the worker *)

UploadOp(m) == IF m = "audio" THEN "send_audio" ELSE "send_video"

\* Lines 103-123: the worker's future is done.  When it raised, the handler
\* of line 150 starts; when the file is missing, the message of line 108 is
\* sent; otherwise the caption is built and the upload is called.
download_and_send_resume(r) ==
    /\ pc[r] = "await_worker"
    /\ job[r] = "finished"
    /\ loop = 0
    /\ LET res == result[r]
       IN  Advance(r, <<>>, 0,
                   IF ~res.ok THEN download_except
                   ELSE IF res.filepath = <<>> \/ ~exists(res.filepath) THEN "ds_missing_send"
                   ELSE "uploading")
    /\ loop' = 0
    /\ UNCHANGED <<msg, mode, original, url, escaped, job, result, wrote, queue, running, fs>>
    /\ UNCHANGED callVars

\* Lines 108-109: the message has been sent, safe_delete is called next; or
\* the send raised.
missing_send(r) ==
    /\ pc[r] = "ds_missing_send"
    /\ loop = 0
    /\ \E n \in BOOLEAN :
         Advance(r, <<Ev("download_and_send", "send_message", NotFoundText, n)>>, 0,
                 IF n THEN "ds_missing_delete" ELSE download_except)
    /\ loop' = 0
    /\ UNCHANGED <<msg, mode, original, url, escaped, job, result, wrote, queue, running, fs>>
    /\ UNCHANGED callVars

\* Lines 109-110: the delete has ended, download_and_send returns.
missing_delete(r) ==
    /\ pc[r] = "ds_missing_delete"
    /\ loop = 0
    /\ \E d \in BOOLEAN :
         Advance(r, safe_delete(ProcessingMessage, d), 0, "done")
    /\ loop' = 0
    /\ UNCHANGED <<msg, mode, original, url, escaped, job, result, wrote, queue, running, fs>>
    /\ UNCHANGED callVars

\* The upload with its failure ignored: the flow goes on to the cleanup and
\* the confirmation whether or not the file was sent.
upload_end_failure_ignored(r) ==
    /\ pc[r] = "uploading"
    /\ loop = 0
    /\ \E u \in BOOLEAN :
         Advance(r, <<Ev("download_and_send", UploadOp(mode[r]), "file", u)>>, 0, "uploaded")
    /\ loop' = 0
    /\ UNCHANGED <<msg, mode, original, url, escaped, job, result, wrote, queue, running, fs>>
    /\ UNCHANGED callVars

\* Lines 122-140: send_audio / send_video returns, safe_delete is called
\* next; or it raises.
upload_end(r) ==
    /\ pc[r] = "uploading"
    /\ loop = 0
    /\ \E u \in BOOLEAN :
         Advance(r, <<Ev("download_and_send", UploadOp(mode[r]), "file", u)>>, 0,
                 IF u THEN "uploaded" ELSE download_except)
    /\ loop' = 0
    /\ UNCHANGED <<msg, mode, original, url, escaped, job, result, wrote, queue, running, fs>>
    /\ UNCHANGED callVars

\* The removal outside its try: a failed os.remove reaches the handler of
\* line 150 and the confirmation is skipped.
cleanup_remove_raises(r) ==
    /\ pc[r] = "uploaded"
    /\ loop = 0
    /\ \E d \in BOOLEAN, rm \in Outcome(exists(result[r].filepath)) :
         LET filepath == result[r].filepath
             removed == rm /\ exists(filepath)
             evs == safe_delete(ProcessingMessage, d)
                        \o <<Ev("download_and_send", "remove", "file", removed)>>
         IN  /\ Advance(r, evs, IF exists(filepath) THEN 0 ELSE 1,
                        IF removed THEN "confirming" ELSE download_except)
             /\ fs' = IF removed THEN [fs EXCEPT ![filepath] = NoFile] ELSE fs
    /\ loop' = 0
    /\ UNCHANGED <<msg, mode, original, url, escaped, job, result, wrote, queue, running>>
    /\ UNCHANGED callVars

\* Lines 140-148: the delete of the status message has ended; os.remove with
\* its failure swallowed; the confirmation is called next.  The removal
\* fails when no file has the path, or by a fault.
cleanup(r) ==
    /\ pc[r] = "uploaded"
    /\ loop = 0
    /\ \E d \in BOOLEAN, rm \in Outcome(exists(result[r].filepath)) :
         LET filepath == result[r].filepath
             removed == rm /\ exists(filepath)
             evs == safe_delete(ProcessingMessage, d)
                        \o <<Ev("download_and_send", "remove", "file", removed)>>
         IN  /\ Advance(r, evs, IF exists(filepath) THEN 0 ELSE 1, "confirming")
             /\ fs' = IF removed THEN [fs EXCEPT ![filepath] = NoFile] ELSE fs
    /\ loop' = 0
    /\ UNCHANGED <<msg, mode, original, url, escaped, job, result, wrote, queue, running>>
    /\ UNCHANGED callVars

\* Line 148: the confirmation has been sent, or the send raised.
confirm_end(r) ==
    /\ pc[r] = "confirming"
    /\ loop = 0
    /\ \E k \in BOOLEAN :
         Advance(r, <<Ev("download_and_send", "send_message", ConfirmText, k)>>, 0,
                 IF k THEN "done" ELSE download_except)
    /\ loop' = 0
    /\ UNCHANGED <<msg, mode, original, url, escaped, job, result, wrote, queue, running, fs>>
    /\ UNCHANGED callVars

\* Lines 151-152: the handler's safe_delete has ended, send_message(str(e))
\* is called next.
except_delete(r) ==
    /\ pc[r] = "ds_except_delete"
    /\ loop = 0
    /\ \E d \in BOOLEAN :
         Advance(r, safe_delete(ProcessingMessage, d), 0, "ds_except_send")
    /\ loop' = 0
    /\ UNCHANGED <<msg, mode, original, url, escaped, job, result, wrote, queue, running, fs>>
    /\ UNCHANGED callVars

\* Line 152: the error text has been sent and download_and_send returns, or
\* the send raised: the exception leaves download_and_send and reaches the
\* handler of callback_download.
except_send(r) ==
    /\ pc[r] = "ds_except_send"
    /\ loop = 0
    /\ \E s \in BOOLEAN :
         /\ Advance(r, <<Ev("download_and_send", "send_message", str_e(HandledError(r)), s)>>,
                    0, IF s THEN "done" ELSE "cb_except")
         /\ escaped' = [escaped EXCEPT ![r] =
                IF s THEN @ ELSE @ \cup {"download_and_send"}]
    /\ loop' = 0
    /\ UNCHANGED <<msg, mode, original, url, job, result, wrote, queue, running, fs>>
    /\ UNCHANGED callVars

----------------------------------------------------------------------------
(* modules/youtube.py: format_seconds, and the size check of
   _pytube_download, applied to single inputs *)

Str(n) == ToString(n)

\* What format_seconds can be given: yt.length is an int; a caller can pass
\* any object.  A text is a sequence of characters, a float is given in
\* tenths.
IntArg(n) == [kind |-> "int", val |-> n]

TextArg(t) == [kind |-> "str", val |-> t]

FloatArg(tenths) == [kind |-> "float", val |-> tenths]

BoolArg(b) == [kind |-> "bool", val |-> b]

NoneArg == [kind |-> "none", val |-> None]

\* The decimal digits int() reads: the ASCII ones and those of other scripts,
\* of which the Arabic-Indic digit three (U+0663) stands here.
DigitValue ==
    [c \in Digits \cup {"U+0663"} |->
        CASE c = "0" -> 0 [] c = "1" -> 1 [] c = "2" -> 2 [] c = "3" -> 3
          [] c = "4" -> 4 [] c = "5" -> 5 [] c = "6" -> 6 [] c = "7" -> 7
          [] c = "8" -> 8 [] c = "9" -> 9 [] c = "U+0663" -> 3]

IsDigit(c) == c \in DOMAIN DigitValue

\* The whitespace int() removes around the literal: that of str.strip()
\* without the separators U+001C to U+001F.
IntWhitespace == Whitespace \ {"U+001C", "U+001D", "U+001E", "U+001F"}

RECURSIVE int_lstrip(_)
int_lstrip(t) == IF t # <<>> /\ Head(t) \in IntWhitespace THEN int_lstrip(Tail(t)) ELSE t

RECURSIVE int_rstrip(_)
int_rstrip(t) ==
    IF t # <<>> /\ t[Len(t)] \in IntWhitespace
    THEN int_rstrip(SubSeq(t, 1, Len(t) - 1)) ELSE t

int_strip(t) == int_rstrip(int_lstrip(t))

\* The text after int() removed the surrounding whitespace and the sign.
Unsigned(t) ==
    LET u == int_strip(t)
    IN  IF u # <<>> /\ Head(u) \in {"+", "-"} THEN Tail(u) ELSE u

Negative(t) == LET u == int_strip(t) IN u # <<>> /\ Head(u) = "-"

\* An integer literal in base 10: digits, with single underscores between
\* digits.
IsIntLiteral(t) ==
    LET b == Unsigned(t)
    IN  /\ b # <<>>
        /\ IsDigit(b[1])
        /\ IsDigit(b[Len(b)])
        /\ \A i \in DOMAIN b :
             \/ IsDigit(b[i])
             \/ /\ b[i] = "_"
                /\ IsDigit(b[i - 1])
                /\ IsDigit(b[i + 1])

RECURSIVE DigitsValue(_, _)
DigitsValue(b, acc) ==
    IF b = <<>> THEN acc
    ELSE IF Head(b) = "_" THEN DigitsValue(Tail(b), acc)
    ELSE DigitsValue(Tail(b), 10 * acc + DigitValue[Head(b)])

\* int(seconds) raises for None (TypeError) and for a string that is no
\* integer literal (ValueError).
IntRaises(x) ==
    \/ x.kind = "none"
    \/ x.kind = "str" /\ ~IsIntLiteral(x.val)

\* int(seconds) when it does not raise: a float is truncated towards zero,
\* True is 1 and False is 0.
IntValue(x) ==
    CASE x.kind = "int" -> x.val
      [] x.kind = "bool" -> IF x.val THEN 1 ELSE 0
      [] x.kind = "float" ->
            IF x.val >= 0 THEN x.val \div 10 ELSE 0 - ((0 - x.val) \div 10)
      [] x.kind = "str" ->
            IF Negative(x.val) THEN 0 - DigitsValue(Unsigned(x.val), 0)
            ELSE DigitsValue(Unsigned(x.val), 0)

\* The second divmod dropped: minutes are not reduced modulo 60.
format_seconds_one_divmod(seconds) ==
    IF IntRaises(seconds) THEN "Unknown"
    ELSE LET s0 == IntValue(seconds)
             m == s0 \div 60
             s == s0 % 60
             h == m \div 60
         IN  IF h # 0 THEN Str(h) \o "h " \o Str(m) \o "m " \o Str(s) \o "s"
             ELSE IF m # 0 THEN Str(m) \o "m " \o Str(s) \o "s"
             ELSE Str(s) \o "s"

\* divmod is the floor division and its non-negative remainder, as \div and %.
format_seconds(seconds) ==
    IF IntRaises(seconds) THEN "Unknown"
    ELSE LET s0 == IntValue(seconds)
             m0 == s0 \div 60
             s == s0 % 60
             h == m0 \div 60
             m == m0 % 60
         IN  IF h # 0 THEN Str(h) \o "h " \o Str(m) \o "m " \o Str(s) \o "s"
             ELSE IF m # 0 THEN Str(m) \o "m " \o Str(s) \o "s"
             ELSE Str(s) \o "s"

SecondsTexts ==
    {<<"a", "b", "c">>, <<>>, <<" ">>, <<"1", "m", " ", "1", "5", "s">>,
     <<"7", "5">>, <<" ", "7", "5", " ">>, <<"\t", "7", "5", "\n">>,
     <<"-", "5">>, <<"+", "3", "6", "6", "1">>, <<"7", "_", "5">>,
     <<"7", "_", "_", "5">>, <<"_", "5">>, <<"5", "_">>, <<"1", ".", "5">>,
     <<"-">>, <<"-", "-", "5">>, <<"7", " ", "5">>, <<"0", "0", "7">>,
     <<"U+0663">>, <<"U+0663", "_", "5">>, <<"3", "6", "0", "0">>, <<"0">>,
     <<"U+00A0", "7", "5", "U+2028">>, <<"U+001C", "7", "5">>,
     <<"7", "5", "U+001F">>, <<"U+001D", "-", "5">>, <<"U+001E", "U+0663">>}

SecondsInputs ==
    {IntArg(n) : n \in 0..MaxSeconds}
        \cup {IntArg(0 - n) : n \in {1, 5, 60, 61, 3600, 3661}}
        \cup {TextArg(t) : t \in SecondsTexts}
        \cup {FloatArg(f) : f \in {0, 5, 759, 36000, 0 - 5, 0 - 15}}
        \cup {BoolArg(b) : b \in BOOLEAN}
        \cup {NoneArg}

\* Lines 74-75 on a file of the given size: the error raised, or "ok".
size_check(size) == IF TooLarge(size) THEN TooLargeText ELSE "ok"

SizeInputs ==
    {Size(0, 0), Size(0, 1), Size(1999, MiB - 1), Size(2000, 0), Size(2000, 1),
     Size(2047, MiB - 1), GiB2, Size(2048, 1), Size(3072, 0)}

call_format_seconds ==
    /\ callFn = "none"
    /\ \E x \in SecondsInputs :
         /\ callArg' = x
         /\ callRet' = format_seconds(x)
    /\ callFn' = "format_seconds"
    /\ UNCHANGED reqVars

call_size_check ==
    /\ callFn = "none"
    /\ \E x \in SizeInputs :
         /\ callArg' = x
         /\ callRet' = size_check(x)
    /\ callFn' = "size_check"
    /\ UNCHANGED reqVars

----------------------------------------------------------------------------
(* modules/youtube.py: escape_md and the caption of download_and_send.
   A text is a sequence of characters; the literal parts of the caption are
   single items of the sequence. *)

CharsArg(t) == [kind |-> "chars", val |-> t]

\* for ch in "_`*[]()#:+-=~|{}.!>"
ReservedChars ==
    <<"_", "U+0060", "*", "[", "]", "(", ")", "#", ":", "+", "-", "=", "~", "|",
      "{", "}", ".", "!", ">">>

\* text.replace(ch, f"\\{ch}")
RECURSIVE replace(_, _)
replace(t, ch) ==
    IF t = <<>> THEN <<>>
    ELSE (IF Head(t) = ch THEN <<"\\", ch>> ELSE <<Head(t)>>) \o replace(Tail(t), ch)

RECURSIVE escape_passes(_, _)
escape_passes(t, i) ==
    IF i > Len(ReservedChars) THEN t
    ELSE escape_passes(replace(t, ReservedChars[i]), i + 1)

\* The backslash added to the characters that are replaced, after the others.
escape_md_backslash_too(x) ==
    IF x.kind = "none" \/ x.val = <<>> THEN <<>>
    ELSE replace(escape_passes(x.val, 1), "\\")

escape_md(x) ==
    IF x.kind = "none" \/ x.val = <<>> THEN <<>>
    ELSE escape_passes(x.val, 1)

\* metadata.get(key): None when the provider gave nothing
Meta(title, uploader, duration, webpage_url) ==
    [title |-> title, uploader |-> uploader, duration |-> duration,
     webpage_url |-> webpage_url]

Falsy(x) == x.kind = "none" \/ x.val = <<>>

UnknownTitle == <<"U", "n", "k", "n", "o", "w", "n", " ", "t", "i", "t", "l", "e">>

\* Lines 112-120; the lines of the caption, to be joined by "\n".
caption_lines(metadata, first_name, id) ==
    <<<<"**">> \o escape_md(IF Falsy(metadata.title)
                            THEN CharsArg(UnknownTitle)
                            ELSE metadata.title) \o <<"**">>>>
    \o (IF Falsy(metadata.uploader) THEN <<>>
        ELSE <<<<"Uploader: ">> \o escape_md(metadata.uploader)>>)
    \o (IF metadata.duration.kind = "none" THEN <<>>
        ELSE <<<<"Duration: ", format_seconds(metadata.duration)>>>>)
    \o <<<<"Requested by: ", "[">> \o escape_md(first_name)
           \o <<"](tg://user?id=", Str(id), ")">>>>
    \o <<<<"Source: ">> \o escape_md(metadata.webpage_url)>>

EscapeAlphabet == {"a", "_", "*", ".", "-", "\\"}

RECURSIVE SeqsUpTo(_, _)
SeqsUpTo(S, n) ==
    IF n = 0 THEN {<<>>}
    ELSE LET shorter == SeqsUpTo(S, n - 1)
         IN  shorter \cup {Append(t, c) : t \in shorter, c \in S}

EscapeInputs == {CharsArg(t) : t \in SeqsUpTo(EscapeAlphabet, MaxText)} \cup {NoneArg}

FieldInputs ==
    {NoneArg, CharsArg(<<>>), CharsArg(<<"a", "_", "b">>), CharsArg(<<"\\", "*">>)}

CaptionInputs ==
    {[metadata |-> Meta(t, u, d, w), first_name |-> CharsArg(<<"J", ".">>), id |-> 7] :
        t \in FieldInputs, u \in FieldInputs,
        d \in {NoneArg, IntArg(75), TextArg(<<"U+001C", "7", "5">>)},
        w \in {CharsArg(<<"y", ".", "b", "e", "/", "a", "-", "b">>)}}

call_escape_md ==
    /\ callFn = "none"
    /\ \E x \in EscapeInputs :
         /\ callArg' = x
         /\ callRet' = escape_md(x)
    /\ callFn' = "escape_md"
    /\ UNCHANGED reqVars

call_caption ==
    /\ callFn = "none"
    /\ \E x \in CaptionInputs :
         /\ callArg' = x
         /\ callRet' = caption_lines(x.metadata, x.first_name, x.id)
    /\ callFn' = "caption"
    /\ UNCHANGED reqVars

PathAlphabet == {"a", "Z", "7", "/", "(", ".", " ", "-", "_", "U+00E9", "U+0663"}

PathInputs == SeqsUpTo(PathAlphabet, MaxText)

call_sanitize_filename ==
    /\ callFn = "none"
    /\ \E path \in PathInputs :
         /\ callArg' = path
         /\ callRet' = sanitize_filename(path)
    /\ callFn' = "sanitize_filename"
    /\ UNCHANGED reqVars

\* Texts put together from a part before the link, a scheme, a subdomain
\* prefix, a domain, a separator, a path, an id and a part after the link.
Before == {<<>>,
     <<"x", " ">>}

Schemes == {<<>>,
     <<"h", "t", "t", "p", ":", "/", "/">>,
     <<"H", "T", "T", "P", "S", ":", "/", "/">>,
     <<"h", "t", "t", "p", "U+017F", ":", "/", "/">>}

Subdomains == {<<>>,
     <<"w", "w", "w", ".">>,
     <<"m", ".">>,
     <<"W", "W", "W", ".", "M", ".">>}

DomainNames == {<<"y", "o", "u", "t", "u", "b", "e", ".", "c", "o", "m">>,
     <<"y", "o", "u", "t", "u", ".", "b", "e">>,
     <<"Y", "o", "u", "T", "u", "b", "e", ".", "C", "o", "m">>,
     <<"y", "o", "u", "t", "u", "b", "e", ".", "o", "r", "g">>}

Separators == {<<"/">>,
     <<"?">>}

PathHeads == {<<"w", "a", "t", "c", "h", "?", "v", "=">>,
     <<"s", "h", "o", "r", "t", "s", "/">>,
     <<"e", "m", "b", "e", "d", "/">>,
     <<"v", "/">>,
     <<>>,
     <<"W", "a", "t", "c", "h", "?", "V", "=">>,
     <<"U+017F", "h", "o", "r", "t", "s", "/">>,
     <<"w", "a", "t", "c", "h", "?", "x", "=">>,
     <<"p", "l", "a", "y", "l", "i", "s", "t", "/">>}

Ids == {<<"d", "Q", "w", "4", "w", "9", "W", "g", "X", "c", "Q">>,
     <<"d", "Q", "w", "4", "w", "9", "W", "g", "X", "c">>,
     <<"a", "-", "b", "_", "c", "-", "d", "_", "e", "-", "f">>,
     <<"U+00E9", "U+00E9", "U+00E9", "U+00E9", "U+00E9", "U+00E9", "U+00E9", "U+00E9", "U+00E9", "7", "U+0663">>}

After == {<<>>,
     <<" ", "o", "k">>}

TextInputs ==
    {<<>>} \cup Texts
      \cup {b \o sch \o sub \o d \o sep \o h \o id \o a :
               b \in Before, sch \in Schemes, sub \in Subdomains, d \in DomainNames,
               sep \in Separators, h \in PathHeads, id \in Ids, a \in After}

call_detect_platform ==
    /\ callFn = "none"
    /\ \E text \in TextInputs :
         /\ callArg' = text
         /\ callRet' = detect_platform(text)
    /\ callFn' = "detect_platform"
    /\ UNCHANGED reqVars

PureNext ==
    \/ call_detect_platform
    \/ call_sanitize_filename
    \/ call_format_seconds
    \/ call_size_check
    \/ call_escape_md
    \/ call_caption

PureSpec == Init /\ [][PureNext]_vars

----------------------------------------------------------------------------
(* The bot *)

\* The steps of request r up to the end of its job in DOWNLOAD_WORKERS.
UpToWorker(r) ==
    \/ start(r)
    \/ handle_text(r)
    \/ service_cleanup(r)
    \/ callback_download(r)
    \/ callback_lookup(r)
    \/ callback_alert(r)
    \/ callback_answer(r)
    \/ callback_status(r)
    \/ callback_except(r)
    \/ StartJob(r)
    \/ pytube_fetch(r)
    \/ pytube_check(r)

\* The steps of download_and_send after the await of the job.
AfterWorker(r) ==
    \/ download_and_send_resume(r)
    \/ missing_send(r)
    \/ missing_delete(r)
    \/ upload_end(r)
    \/ cleanup(r)
    \/ confirm_end(r)
    \/ except_delete(r)
    \/ except_send(r)

ReqNext == \E r \in Arriving : UpToWorker(r) \/ AfterWorker(r)

Next == ReqNext

Spec == Init /\ [][Next]_vars

\* The pool under more requests than it has threads.  What download_and_send
\* does once its job has ended leaves queue, running and job as they are, so
\* the requests are followed up to the end of their jobs.
PoolNext == \E r \in Submitting : UpToWorker(r)

\* The pool starts a queued job when a thread is free, and a started job runs
\* to its end: there is no cancellation, the provider call returns or raises.
Fairness ==
    \A r \in Submitting :
        /\ WF_vars(StartJob(r))
        /\ WF_vars(pytube_fetch(r))
        /\ WF_vars(pytube_check(r))

PoolSpec == Init /\ [][PoolNext]_vars /\ Fairness

----------------------------------------------------------------------------
(* Vocabulary of the properties *)

Done(r) == pc[r] = "done"

\* The calls a function made for request r, in order.
Calls(r, by) == SelectSeq(log[r], LAMBDA e : e.by = by)

IsUpload(e) == e.op \in {"send_audio", "send_video"}

IsConfirm(e) == e.op = "send_message" /\ e.text = ConfirmText

StatusSent(r) ==
    \E i \in DOMAIN log[r] :
        log[r][i] = Ev("callback_download", "send_message", ProcessingText, TRUE)

Pressed(r) == mode[r] # None

WorkerFailed(r) == job[r] = "finished" /\ ~result[r].ok

UploadOk(r) == \E i \in DOMAIN log[r] : IsUpload(log[r][i]) /\ log[r][i].ok

RemoveFailed(r) == \E i \in DOMAIN log[r] : log[r][i].op = "remove" /\ ~log[r][i].ok

\* The texts of the exceptions that leave _pytube_download.
WorkerErrorTexts ==
    {MakedirsError,
     "[x] Failed to fetch video info: " \o ProviderError,
     ProviderError,
     "[x] No audio streams found",
     "[x] No video streams found",
     "[x] Failed to download: " \o ProviderError,
     NoSuchFile,
     "[x] File too large for Telegram (max 2GB)",
     MetadataError}

----------------------------------------------------------------------------
(* Properties of the request flow *)

\* C1: once a request that dispatched a download has reached its terminal
\* outcome, the file its download wrote is no longer on disk, unless the
\* deletion attempt itself failed.
C1_FileRemovedAtEnd ==
    \A r \in Req :
        (Done(r) /\ wrote[r] # <<>> /\ ~RemoveFailed(r)) => fs[wrote[r]].owner # r

\* C2: for every request whose status message was sent, a deletion of that
\* message has been attempted when the handling has ended, on every path, and
\* a failed deletion is never reported or otherwise visible in the outcome.
C2_StatusDeleteAttempted ==
    \A r \in Req :
        (Done(r) /\ StatusSent(r)) =>
            /\ \E i \in DOMAIN log[r] :
                 log[r][i].op = "delete" /\ log[r][i].text = ProcessingText
            /\ \A i \in DOMAIN log[r] :
                 log[r][i].text \notin {RpcError("delete"), "Error: " \o RpcError("delete")}
            /\ \A i \in DOMAIN log[r] :
                 (log[r][i].op = "delete" /\ ~log[r][i].ok /\ i < Len(log[r])) =>
                     log[r][i + 1].by = "download_and_send"

\* The missing-file path with a deletion that failed.
C2_Witness ==
    \E r \in Req :
        /\ Done(r)
        /\ StatusSent(r)
        /\ \E i \in DOMAIN log[r] : log[r][i].text = NotFoundText /\ log[r][i].ok
        /\ \E i \in DOMAIN log[r] : log[r][i].op = "delete" /\ ~log[r][i].ok

\* C3: when the worker fails, download_and_send deletes the status message,
\* then sends one message whose text is exactly the worker's error text, and
\* makes no other call: no upload, no confirmation.  Nothing else is sent for
\* the request once that message is delivered.
C3_WorkerFailureReport ==
    \A r \in Req :
        (Done(r) /\ WorkerFailed(r)) =>
            LET ds == Calls(r, "download_and_send")
            IN  /\ Len(ds) = 2
                /\ ds[1].op = "delete"
                /\ ds[2].op = "send_message"
                /\ ds[2].text = result[r].err
                /\ result[r].err \in WorkerErrorTexts
                /\ ds[2].ok => log[r][Len(log[r])] = ds[2]
                /\ \A i \in DOMAIN log[r] : ~IsUpload(log[r][i]) /\ ~IsConfirm(log[r][i])

\* A file over the ceiling: the status message deleted, the error text sent.
C3_Witness ==
    \E r \in Req :
        /\ Done(r)
        /\ WorkerFailed(r)
        /\ result[r].err = TooLargeText
        /\ Len(log[r]) = 5
        /\ log[r][4] = Ev("download_and_send", "delete", ProcessingText, TRUE)
        /\ log[r][5] = Ev("download_and_send", "send_message", TooLargeText, TRUE)

\* C4: when download and upload both succeed, download_and_send's calls are,
\* in this order, the upload, the deletion of the status message, the removal
\* of the local file and the confirmation; a failed removal is swallowed: the
\* confirmation follows it and, once the confirmation is delivered, no error
\* message is sent.
C4_SuccessOrder ==
    \A r \in Req :
        UploadOk(r) =>
            LET ds == Calls(r, "download_and_send")
            IN  /\ IsUpload(ds[1]) /\ ds[1].ok
                /\ Len(ds) >= 2 => ds[2].op = "delete"
                /\ Len(ds) >= 3 => ds[3].op = "remove"
                /\ Len(ds) >= 4 => IsConfirm(ds[4])
                /\ pc[r] = "uploaded" => Len(ds) = 1
                /\ pc[r] = "confirming" => Len(ds) = 3
                /\ Done(r) =>
                     /\ Len(ds) >= 4
                     /\ ds[4].ok => log[r][Len(log[r])] = ds[4]

\* The removal failed, the confirmation is the last thing sent.
C4_Witness ==
    \E r \in Req :
        /\ Done(r)
        /\ UploadOk(r)
        /\ RemoveFailed(r)
        /\ log[r][Len(log[r])] = Ev("download_and_send", "send_message", ConfirmText, TRUE)

\* C5: a button press whose message id resolves to no message, or to a message
\* without text, is answered with the alert "Original link not found." (the
\* answer is the call made once the lookup has ended); no status message is
\* sent, the worker is never invoked, nothing is uploaded.
C5_UnresolvedPressAlerts ==
    \A r \in Req :
        (/\ Pressed(r)
         /\ pc[r] # "cb_lookup"
         /\ ~original[r].present \/ original[r].text = <<>>) =>
            /\ pc[r] \in {"cb_alert", "cb_except", "done"}
            /\ pc[r] # "cb_alert" =>
                 log[r][2].op = "answer" /\ log[r][2].text = AlertText
            /\ \A i \in DOMAIN log[r] :
                 /\ log[r][i].text # ProcessingText
                 /\ ~IsUpload(log[r][i])
                 /\ log[r][i].op = "answer" => log[r][i].text = AlertText
            /\ job[r] = "none"
            /\ result[r] = NoResult
            /\ wrote[r] = <<>>

\* The looked-up message exists but has no text; the alert was delivered.
C5_Witness ==
    \E r \in Req :
        /\ Pressed(r)
        /\ original[r] = [present |-> TRUE, text |-> <<>>]
        /\ Done(r)
        /\ log[r][2] = Ev("callback_download", "answer", AlertText, TRUE)
        /\ Len(log[r]) = 2

\* C6: no exception ever propagates out of handle_text, callback_download or
\* download_and_send.
C6_NoExceptionEscapes == \A r \in Req : escaped[r] = {}

\* C7: at most two worker jobs execute at the same time, and every job
\* waiting in the pool's queue is eventually started.
C7_PoolLimit ==
    /\ [](Cardinality(running) <= 2)
    /\ \A r \in Req : (job[r] = "queued") ~> (job[r] = "running")

\* Both threads are busy and a third job waits.
C7_Witness == Cardinality(running) = 2 /\ queue # <<>>

\* C8: while a request's download is queued or running, the event loop is
\* free: the text message or the button press of any other request can be
\* handled, up to the point where it awaits its own download.
C8_LoopNotBlocked ==
    \A r, q \in Arriving :
        (r # q /\ job[r] \in {"queued", "running", "written"}) =>
            /\ pc[q] = "new" => ENABLED handle_text(q)
            /\ pc[q] = "choice" => ENABLED callback_download(q)
            /\ pc[q] = "cb_lookup" => ENABLED callback_lookup(q)
            /\ pc[q] = "cb_answer" => ENABLED callback_answer(q)
            /\ pc[q] = "cb_status" => ENABLED callback_status(q)

\* One download is running on a thread while another request, pressed after
\* it, has been handled up to its own wait in the queue.
C8_Witness ==
    \E r, q \in Req :
        /\ r # q
        /\ job[r] \in {"running", "written"}
        /\ pc[q] = "await_worker"
        /\ queue = <<q>>
        /\ StatusSent(q)

----------------------------------------------------------------------------
(* Properties of the pure functions *)

\* C9: the size check accepts a file of exactly 2 GiB and every smaller one,
\* and rejects with the file-too-large error every file of 2 GiB + 1 or more.
C9_CeilingIsTwoGiB ==
    callFn = "size_check" =>
        IF SizeGT(callArg, GiB2) THEN callRet = TooLargeText ELSE callRet = "ok"

\* A text that is a whole number written in ASCII digits.
IsWholeNumberText(t) == t # <<>> /\ \A i \in DOMAIN t : t[i] \in Digits

RECURSIVE WholeNumber(_, _)
WholeNumber(t, acc) ==
    IF t = <<>> THEN acc
    ELSE WholeNumber(Tail(t), 10 * acc
            + (CHOOSE d \in 0..9 : ToString(d) = Head(t)))

\* An input that cannot be read as a number: no value, or a text with a
\* character that no number is written with, or with no digit at all.
NotANumber(x) ==
    \/ x.kind = "none"
    \/ /\ x.kind = "str"
       /\ \/ \E i \in DOMAIN x.val :
               x.val[i] \notin DOMAIN DigitValue \cup Whitespace \cup {"+", "-", ".", "_"}
          \/ \A i \in DOMAIN x.val : x.val[i] \notin DOMAIN DigitValue

\* C10: format_seconds renders n >= 0 as "{s}s" below a minute, "{m}m {s}s"
\* below an hour and "{h}h {m}m {s}s" from an hour on, with h = n div 3600,
\* m = (n mod 3600) div 60, s = n mod 60, and anything that cannot be read
\* as a number as "Unknown".  The whole number is given as an int or as the
\* text of one in ASCII digits.
C10_FormatSeconds ==
    callFn = "format_seconds" =>
        /\ \/ callArg.kind = "int" /\ callArg.val >= 0
           \/ callArg.kind = "str" /\ IsWholeNumberText(callArg.val)
           => LET n == IF callArg.kind = "int" THEN callArg.val
                       ELSE WholeNumber(callArg.val, 0)
                  h == n \div 3600
                  m == (n % 3600) \div 60
                  s == n % 60
              IN  /\ n < 60 => callRet = ToString(s) \o "s"
                  /\ (60 <= n /\ n < 3600) =>
                       callRet = ToString(m) \o "m " \o ToString(s) \o "s"
                  /\ n >= 3600 =>
                       callRet = ToString(h) \o "h " \o ToString(m) \o "m "
                                     \o ToString(s) \o "s"
                  /\ n = 0 => callRet = "0s"
                  /\ n = 45 => callRet = "45s"
                  /\ n = 75 => callRet = "1m 15s"
                  /\ n = 3600 => callRet = "1h 0m 0s"
                  /\ n = 3661 => callRet = "1h 1m 1s"
        /\ NotANumber(callArg) => callRet = "Unknown"

C10_Witness ==
    /\ callFn = "format_seconds"
    /\ callArg = IntArg(3661)
    /\ callRet = "1h 1m 1s"

\* The escape as the specification states it: one backslash before every
\* reserved character, every other character copied.
RECURSIVE EscapedPerChar(_)
EscapedPerChar(t) ==
    IF t = <<>> THEN <<>>
    ELSE (IF \E i \in DOMAIN ReservedChars : ReservedChars[i] = Head(t)
          THEN <<"\\", Head(t)>> ELSE <<Head(t)>>) \o EscapedPerChar(Tail(t))

\* C11: in the output of escape_md every reserved character is preceded by
\* exactly one added backslash and every other character is copied in order;
\* in the caption the escape is applied exactly once to the title, the
\* uploader and the source url.
C11_EscapeOncePerChar ==
    /\ callFn = "escape_md" =>
         callRet = (IF callArg.kind = "none" THEN <<>> ELSE EscapedPerChar(callArg.val))
    /\ callFn = "caption" =>
         LET md == callArg.metadata
             n == Len(callRet)
         IN  /\ callRet[1] = <<"**">>
                    \o (IF Falsy(md.title) THEN UnknownTitle
                        ELSE EscapedPerChar(md.title.val)) \o <<"**">>
             /\ ~Falsy(md.uploader) =>
                    callRet[2] = <<"Uploader: ">> \o EscapedPerChar(md.uploader.val)
             /\ callRet[n] = <<"Source: ">> \o EscapedPerChar(md.webpage_url.val)

\* A text with reserved characters and a backslash of its own.
C11_Witness ==
    /\ callFn = "escape_md"
    /\ callArg = CharsArg(<<"\\", "_", "a", ".">>)
    /\ callRet = <<"\\", "\\", "_", "a", "\\", ".">>

\* What sanitize_filename keeps of a path whatever the characters are: the
\* directory component and the length of the filename.
C12_DirAndLengthKept ==
    callFn = "sanitize_filename" =>
        /\ split(callRet).head = split(callArg).head
        /\ Len(split(callRet).tail) = Len(split(callArg).tail)

\* C12: sanitize_filename keeps the directory component and the length of
\* the filename, replaces every character of the filename outside
\* [A-Za-z0-9_\-. ] by an underscore and leaves every character inside that
\* set unchanged.  Allowed is the set as the claim writes it, not the
\* pattern's \w.
C12_SanitizeFilename ==
    callFn = "sanitize_filename" =>
        LET Allowed == Lower \cup Upper \cup Digits \cup {"_", "-", ".", " "}
            old == split(callArg).tail
            new == split(callRet).tail
        IN  /\ C12_DirAndLengthKept
            /\ \A i \in DOMAIN old :
                 new[i] = IF old[i] \in Allowed THEN old[i] ELSE "_"

\* The URL shapes of YOUTUBE_REGEX, stated apart from the matcher: a domain,
\* a slash, the start of a path and a video id of eleven id characters, the
\* letters in any case.
ShapeDomains == {<<"y", "o", "u", "t", "u", "b", "e", ".", "c", "o", "m">>,
                 <<"y", "o", "u", "t", "u", ".", "b", "e">>}

\* (watch\?v=|shorts/|embed/|v/)? : canonical watch URL, shorts path, embed
\* path, v/ path, and the id directly after the domain (shortened domain,
\* bare video-id path)
SixShapes == {<<"w", "a", "t", "c", "h", "?", "v", "=">>, <<"s", "h", "o", "r", "t", "s", "/">>,
              <<"e", "m", "b", "e", "d", "/">>, <<"v", "/">>, <<>>}

ShapeAt(text, i, shape) ==
    /\ i + Len(shape) + IdLength - 1 <= Len(text)
    /\ \A k \in DOMAIN shape : LowerOf(text[i + k - 1]) = shape[k]
    /\ \A k \in 1..IdLength : IdChar(text[i + Len(shape) + k - 1])

ContainsShape(text, shapes) ==
    \E i \in DOMAIN text, d \in ShapeDomains, h \in shapes :
        ShapeAt(text, i, d \o <<"/">> \o h)

\* C13 as stated: the platform tag for every text that contains one of the
\* five shapes the claim lists (the pattern's v/ path is not one of them)
\* and None for every text that contains none of them.
C13_FiveShapesOnly ==
    callFn = "detect_platform" =>
        LET Listed == SixShapes \ {<<"v", "/">>}
        IN  callRet = IF ContainsShape(callArg, Listed) THEN "youtube" ELSE None

\* C13: detect_platform returns the platform tag for every text that
\* contains one of the five recognized shapes or the v/ path shape, in any
\* letter case and with or without scheme and www/mobile prefix, and None
\* for every text that contains none of these six shapes, the empty text
\* included.
C13_DetectPlatform ==
    callFn = "detect_platform" =>
        callRet = IF ContainsShape(callArg, SixShapes) THEN "youtube" ELSE None

\* A shorts link in upper-case scheme and subdomain inside other text.
C13_Witness ==
    /\ callFn = "detect_platform"
    /\ callArg = <<"x", " ", "H", "T", "T", "P", "S", ":", "/", "/", "W", "W", "W", ".", "M", ".", "y", "o", "u", "t", "u", ".", "b", "e", "/", "s", "h", "o", "r", "t", "s", "/", "d", "Q", "w", "4", "w", "9", "W", "g", "X", "c", "Q", " ", "o", "k">>
    /\ callRet = "youtube"

\* C14: with several requests in flight, the file a request's download wrote
\* stays that request's file until the request has uploaded it: while the
\* request waits for its worker or uploads, the file is on disk and its last
\* writer is that request, so that no other request has overwritten it or
\* deleted it.
C14_FileOfOneRequest ==
    \A r \in Req :
        (wrote[r] # <<>> /\ pc[r] \in {"await_worker", "uploading"}) =>
            (exists(wrote[r]) /\ fs[wrote[r]].owner = r)

\* The request states of a position of the handlers: Idle (0),
\* AwaitingChoice (1), the handling of the press before the download (2),
\* Downloading (3), Uploading with its cleanup and confirmation (4), Failed
\* with the reporting of the failure (5), and the end of the handling (6).
Stage(p) ==
    CASE p = "new" -> 0
      [] p = "choice" -> 1
      [] p \in {"cb_lookup", "cb_answer", "cb_status"} -> 2
      [] p = "await_worker" -> 3
      [] p \in {"uploading", "uploaded", "confirming"} -> 4
      [] p \in {"cb_alert", "ds_missing_send", "ds_missing_delete",
                "ds_except_delete", "ds_except_send", "cb_except"} -> 5
      [] p = "done" -> 6

\* The steps of the job a press hands to the pool.
JobSteps ==
    {<<"none", "queued">>, <<"queued", "running">>, <<"running", "written">>,
     <<"running", "finished">>, <<"written", "finished">>}

Uploads(l) == SelectSeq(l, IsUpload)

\* C15: a request only moves forwards through its states; its job is handed
\* to the worker at most once and never runs again; the upload is attempted
\* at most once and only after the worker returned a result; after a failed
\* worker or a failed upload the request ends without entering Downloading
\* or Uploading again.
C15_ForwardOnly ==
    [][\A r \in Req :
         /\ Stage(pc'[r]) >= Stage(pc[r])
         /\ Stage(pc'[r]) \in {3, 4} /\ pc'[r] # pc[r] => Stage(pc[r]) \in {2, 3, 4}
         /\ job'[r] # job[r] => <<job[r], job'[r]>> \in JobSteps
         /\ job'[r] = "queued" /\ job[r] # "queued" => pc'[r] = "await_worker"
         /\ Len(Uploads(log'[r])) <= 1
         /\ Uploads(log'[r]) # <<>> => result'[r].ok
         /\ Stage(pc'[r]) = 4 => job'[r] = "finished" /\ result'[r].ok
         /\ (Uploads(log'[r]) # <<>> /\ ~Uploads(log'[r])[1].ok) => Stage(pc'[r]) >= 5
         /\ WorkerFailed(r) /\ pc[r] # "await_worker" => Stage(pc'[r]) >= 5
         /\ pc[r] = "done" => /\ pc'[r] = "done"
                              /\ job'[r] = job[r]
                              /\ log'[r] = log[r]
    ]_vars

\* One request ended after its worker failed, another after a failed upload.
C15_Witness ==
    \E r1, r2 \in Req :
        /\ Done(r1) /\ WorkerFailed(r1)
        /\ Done(r2) /\ Uploads(log[r2]) # <<>> /\ ~UploadOk(r2)

\* The link the pattern recognizes in a text: the match of
\* YOUTUBE_REGEX.search, which starts at the leftmost position where the
\* pattern matches.
RecognizedLink(text) ==
    LET starts == {i \in DOMAIN text : YOUTUBE_REGEX(text, i) # {}}
        first == CHOOSE i \in starts : \A j \in starts : i <= j
        last == CHOOSE e \in YOUTUBE_REGEX(text, first) :
                    \A f \in YOUTUBE_REGEX(text, first) : f <= e
    IN  SubSeq(text, first, last - 1)

\* C16: the url handed to the Download Worker after a button press is the
\* YouTube URL that the Link Detector recognized in the original message,
\* also when the link is surrounded by other text.
C16_UrlIsRecognizedLink ==
    \A r \in Req :
        job[r] # "none" => url[r] = RecognizedLink(original[r].text)

\* C17: when the provider wrote a file whose name holds a character outside
\* the allowed set and the file is within the ceiling, the worker returns
\* the sanitized path and that path names the file on disk.
C17_SanitizedPathNamesFile ==
    \A r \in Req :
        (/\ job[r] = "finished"
         /\ wrote[r] # <<>>
         /\ sanitize_filename(wrote[r]) # wrote[r]
         /\ exists(wrote[r])
         /\ ~TooLarge(fs[wrote[r]].size)) =>
            /\ result[r].ok
            /\ result[r].filepath = sanitize_filename(wrote[r])
            /\ exists(result[r].filepath)

\* The worker returned a result for request r.
WorkerSucceeded(r) == job[r] = "finished" /\ result[r].ok

\* The parts of C18 about the kind of the upload and the mode: a request
\* uploads at most once, an upload is send_audio for mode audio and
\* send_video for mode video, and a request that reached the download has a
\* mode of {audio, video}.
C18_KindFollowsMode ==
    \A r \in Req :
        /\ Len(Uploads(log[r])) <= 1
        /\ \A i \in DOMAIN log[r] :
             IsUpload(log[r][i]) =>
                 log[r][i].op = (IF mode[r] = "audio" THEN "send_audio" ELSE "send_video")
        /\ job[r] # "none" => mode[r] \in {"audio", "video"}

\* C18: for every successful download exactly one upload is made, its kind
\* follows the requested mode, and no request reaches the download with a
\* mode outside {audio, video}.
C18_OneUploadOfModeKind ==
    /\ C18_KindFollowsMode
    /\ \A r \in Req :
         (WorkerSucceeded(r) /\ Done(r)) => Len(Uploads(log[r])) = 1

\* A successful download is left without upload only when another request
\* wrote the same path (C14): that request's cleanup removed the file.
C18_NoUploadOnlyAfterCollision ==
    \A r \in Req :
        (WorkerSucceeded(r) /\ Done(r) /\ Uploads(log[r]) = <<>>) =>
            \E o \in Req \ {r} : wrote[o] = wrote[r] /\ Done(o) /\ UploadOk(o)

\* A message that carries an error text: the text of an exception or the
\* "file not found" text.
IsErrorText(e) ==
    /\ e.op \in {"send_message", "reply"}
    /\ e.text \notin {ConfirmText, ProcessingText, ChooseText, NoLinkText, UsageText}

ConfirmDelivered(r) == \E i \in DOMAIN log[r] : IsConfirm(log[r][i]) /\ log[r][i].ok

ErrorDelivered(r) == \E i \in DOMAIN log[r] : IsErrorText(log[r][i]) /\ log[r][i].ok

\* Every confirmation of r, delivered or not, comes after a successful upload.
ConfirmOnlyAfterUpload(r) ==
    \A i \in DOMAIN log[r] :
        IsConfirm(log[r][i]) =>
            \E j \in 1..(i - 1) : IsUpload(log[r][j]) /\ log[r][j].ok

\* C19 as stated: for a request that entered Downloading the confirmation
\* and an error text are never both sent, the confirmation is sent only
\* after the upload succeeded, and no error text is sent when the file was
\* uploaded successfully.
C19_ConfirmXorError ==
    \A r \in Req :
        job[r] # "none" =>
            /\ ~(ConfirmDelivered(r) /\ ErrorDelivered(r))
            /\ ConfirmOnlyAfterUpload(r)
            /\ UploadOk(r) => ~ErrorDelivered(r)

\* C19: for a request that entered Downloading, a delivered confirmation
\* excludes every error text, the confirmation is sent only after the upload
\* succeeded, and an error text follows a successful upload only when the
\* sending of the confirmation itself failed before it.
C19_ErrorAfterUploadOnlyForConfirm ==
    \A r \in Req :
        job[r] # "none" =>
            /\ ConfirmDelivered(r) => \A i \in DOMAIN log[r] : ~IsErrorText(log[r][i])
            /\ ConfirmOnlyAfterUpload(r)
            /\ \A i \in DOMAIN log[r] :
                 (IsErrorText(log[r][i]) /\ UploadOk(r)) =>
                     \E k \in 1..(i - 1) : IsConfirm(log[r][k]) /\ ~log[r][k].ok

\* The file was uploaded, the confirmation failed to send, and the failure
\* was reported to the user.
C19_Witness ==
    \E r \in Req :
        /\ Done(r)
        /\ UploadOk(r)
        /\ ~ConfirmDelivered(r)
        /\ log[r][Len(log[r])] =
               Ev("download_and_send", "send_message", RpcError("send_message"), TRUE)

====
